---- MODULE Spec2Model ----
(***************************************************************************)
(* Row rule engine of lib/resultfile.py: the five row builders             *)
(* (HeatingResultRow, GvsSingleResultRow, GvsMultipleResultFirstRow,       *)
(* GvsMultipleResultSecondRow, GvsReaccuralResultRow), the module-level    *)
(* GvsIpuInstallDates dictionary they share, and ResultFile.add_row.       *)
(*                                                                         *)
(* Python values are modelled as tagged records so that None, strings and  *)
(* numbers can sit in the same field and be compared.  Cyrillic string     *)
(* literals of the source are transliterated (SANY accepts ASCII only):    *)
(*   "Otoplenie"              = "Отопление"                                *)
(*   "Teplovaya energiya GVS" = "Тепловая энергия ГВС"                     *)
(*   "Obschedomovyi"          = "Общедомовый"                              *)
(*   "Podval"                 = "Подвал"                                   *)
(*   "VKT-5"                  = "ВКТ-5"                                    *)
(*   "Individualnyi"          = "Индивидуальный"                           *)
(*   "SGV-15"                 = "СГВ-15"                                   *)
(*   "Ot abonenta (prochie)"  = "От абонента (прочие)"                     *)
(*   "Pri snyatii pribora"    = "При снятии прибора"                       *)
(*   "Pri ustanovke"          = "При установке"                            *)
(*   "Oplata"                 = "Оплата"                                   *)
(*   "Vozvrat oplaty"         = "Возврат оплаты"                           *)
(***************************************************************************)
EXTENDS Integers, Sequences, FiniteSets, TLC

VARIABLES
    GvsIpuInstallDates, \* module-level dict account -> install date
    gvs,                \* the GvsDetailsRecord object last handed to a builder
    row,                \* the row object the last constructor call returned
    err,                \* the exception the last constructor call raised, or ""
    call,               \* the last constructor call: its kind and arguments
    sheet,              \* ResultFile.sheet: the lists appended so far
    secondRows,         \* history: data.account -> reading date of the most
                        \*   recent GvsMultipleResultSecondRow built for it
    accountsAgree       \* history: every GVS builder call so far had
                        \*   gvs_details_row.account = data.account

vars == <<GvsIpuInstallDates, gvs, row, err, call, sheet, secondRows,
          accountsAgree>>

----------------------------------------------------------------------------
(* Python values *)

None == [tag |-> "none", s |-> "", n |-> 0]
Str(x) == [tag |-> "str", s |-> x, n |-> 0]
Num(x) == [tag |-> "num", s |-> "", n |-> x]

\* Python truthiness of None, a number, a string
Truthy(v) ==
    CASE v.tag = "none" -> FALSE
      [] v.tag = "num" -> v.n # 0
      [] OTHER -> v.s # ""

\* str(v) as an f-string renders it
Format(v) ==
    CASE v.tag = "none" -> "None"
      [] v.tag = "num" -> ToString(v.n)
      [] OTHER -> v.s

Abs(x) == IF x < 0 THEN -x ELSE x

\* n with d digits after zero padding, 0 <= n < 10000
Pad(n, d) ==
    IF d = 4 /\ n < 10 THEN "000" \o ToString(n)
    ELSE IF d = 4 /\ n < 100 THEN "00" \o ToString(n)
    ELSE IF d = 4 /\ n < 1000 THEN "0" \o ToString(n)
    ELSE IF d = 2 /\ n < 10 THEN "0" \o ToString(n)
    ELSE ToString(n)

\* num/den rounded to the nearest integer, ties to even (num >= 0, den > 0)
RoundHalfEven(num, den) ==
    LET q == num \div den
        r == num % den
    IN  IF 2 * r > den \/ (2 * r = den /\ q % 2 = 1) THEN q + 1 ELSE q

\* f"{amount / price:.4f}" for integer amount and positive integer price
Format4f(amount, price) ==
    LET q == RoundHalfEven(Abs(amount) * 10000, price)
    IN  (IF amount < 0 THEN "-" ELSE "")
            \o ToString(q \div 10000) \o "." \o Pad(q % 10000, 4)

\* f"20.{date.month:02d}.{date.year}"
PaymentDate(date) ==
    "20." \o Pad(date.month, 2) \o "." \o ToString(date.year)

----------------------------------------------------------------------------
(* BaseResultRow *)

MAX_FIELDS == 47

NoRow == <<>>

set_field(r, ind, value) == [r EXCEPT ![ind] = value]

get_field(r, ind) == r[ind]

\* a run of set_field calls, in order; asg is a sequence of <<ind, value>>
RECURSIVE set_fields(_, _)
set_fields(r, asg) ==
    IF Len(asg) = 0 THEN r
    ELSE set_fields(set_field(r, asg[1][1], asg[1][2]), Tail(asg))

BaseResultRow_init(date, data, price) ==
    set_fields([ind \in 0 .. MAX_FIELDS - 1 |-> None],
        << <<0, Num(date.month)>>, <<1, Num(date.year)>>,
           <<2, Str(data.account)>>, <<3, Str(data.address)>>,
           <<6, Num(date.month)>>, <<7, Num(date.year)>>,
           <<8, Num(price)>> >>)

\* as_list stopping one field early
as_list_short(r) == [i \in 1 .. MAX_FIELDS - 1 |-> r[i - 1]]

as_list(r) == [i \in 1 .. MAX_FIELDS |-> r[i - 1]]

----------------------------------------------------------------------------
(* Chapters shared by several builders *)

\* "Оплата" if payment_sum else "Возврат оплаты"
payment_label(payment_sum) ==
    IF Truthy(Num(payment_sum)) THEN Str("Oplata") ELSE Str("Vozvrat oplaty")

\* if payment_sum != 0: fields 40..43
PaymentChapter(r, date, payment_sum) ==
    IF payment_sum # 0
    THEN set_fields(r,
            << <<40, Str(PaymentDate(date))>>, <<41, Str(PaymentDate(date))>>,
               <<42, Num(payment_sum)>>, <<43, payment_label(payment_sum)>> >>)
    ELSE r

\* ConsolidatedChapter without the duplicated amount column
ConsolidatedChapter_one_amount(r, quantity, amount) ==
    set_fields(r, << <<35, quantity>>, <<36, Num(amount)>> >>)

\* fields 35..37
ConsolidatedChapter(r, quantity, amount) ==
    set_fields(r, << <<35, quantity>>, <<36, Num(amount)>>,
                     <<37, Num(amount)>> >>)

----------------------------------------------------------------------------
(* HeatingResultRow *)

\* if has_odpu: fields 9..16
HeatingMeterChapter(r, has_odpu) ==
    IF has_odpu
    THEN set_fields(r,
            << <<9, Str("Obschedomovyi")>>, <<10, Str("01.01.2018")>>,
               <<11, Str("Podval")>>, <<12, Num(1)>>, <<13, Str("VKT-5")>>,
               <<14, Num(1)>>, <<15, Num(6)>>, <<16, Num(3)>> >>)
    ELSE r

\* HeatingConsumptionChapter deciding on the averages roster alone
HeatingConsumptionChapter_average_only(r, data, quantity, heating, has_odpu, has_average) ==
    IF has_average
    THEN set_fields(r, << <<26, quantity>>, <<27, Num(heating)>>,
                          <<28, Num(heating)>> >>)
    ELSE set_fields(r, << <<30, data.population>>, <<31, quantity>>,
                          <<32, Num(heating)>>, <<33, Num(heating)>> >>)

\* if has_odpu and has_heating_average: 26..28, else: 30..33
HeatingConsumptionChapter(r, data, quantity, heating, has_odpu, has_average) ==
    IF has_odpu /\ has_average
    THEN set_fields(r, << <<26, quantity>>, <<27, Num(heating)>>,
                          <<28, Num(heating)>> >>)
    ELSE set_fields(r, << <<30, data.population>>, <<31, quantity>>,
                          <<32, Num(heating)>>, <<33, Num(heating)>> >>)

\* the constructor when neither ledger lookup raises
\* c holds the arguments and what the collaborators returned
HeatingResultRow_init(c) ==
    LET quantity == Str(Format4f(c.accural.heating, c.price))
        r0 == set_fields(BaseResultRow_init(c.date, c.data, c.price),
                 << <<4, Str("HEATING_ACCURAL")>>, <<5, Str("Otoplenie")>> >>)
        r1 == HeatingMeterChapter(r0, c.has_odpu)
        r2 == HeatingConsumptionChapter(r1, c.data, quantity,
                  c.accural.heating, c.has_odpu, c.has_heating_average)
        r3 == ConsolidatedChapter(r2, quantity, c.accural.heating)
        r4 == PaymentChapter(r3, c.date, c.payment.v)
    IN  set_field(r4, 45, Num(c.closing.v))

----------------------------------------------------------------------------
(* GvsSingleResultRow and its subclasses *)

\* f"{seed}_2"
get_new_counter_number(seed) == Str(Format(seed) \o "_2")

\* gvs.counter_id or gvs.counter_number
has_counter(g) == Truthy(g.counter_id) \/ Truthy(g.counter_number)

\* synthesize_counter_number without the test for an existing number
synthesize_counter_number_always(g) ==
    [g EXCEPT !.counter_number = get_new_counter_number(g.counter_id)]

\* if not gvs.counter_number: gvs.counter_number = _get_new_counter_number(..)
synthesize_counter_number(g) ==
    IF ~Truthy(g.counter_number)
    THEN [g EXCEPT !.counter_number = get_new_counter_number(g.counter_id)]
    ELSE g

\* the GvsDetailsRecord object as the constructor leaves it
gvs_after(g) == IF has_counter(g) THEN synthesize_counter_number(g) ELSE g

\* install_date without the lookup: the default whatever the dictionary holds
install_date_default_only(memo, account) == Str("01.01.2019")

\* GvsIpuInstallDates.get(account, "01.01.2019")
install_date(memo, account) ==
    IF account \in DOMAIN memo THEN memo[account] ELSE Str("01.01.2019")

\* if gvs.counter_id or gvs.counter_number: fields 9, 10, 13..16
GvsMeterChapter(r, g, memo, account) ==
    IF has_counter(g)
    THEN set_fields(r,
            << <<9, Str("Individualnyi")>>,
               <<10, install_date(memo, account)>>,
               <<13, Str("SGV-15")>>,
               <<14, gvs_after(g).counter_number>>,
               <<15, Num(6)>>, <<16, Num(3)>> >>)
    ELSE r

\* inside the counter branch: fields 19..22
GvsReadingChapter(r, g) ==
    IF has_counter(g)
    THEN set_field(
            IF g.metric_current # None
            THEN set_fields(r, << <<19, g.metric_date_current>>,
                                  <<20, Str("Ot abonenta (prochie)")>>,
                                  <<21, g.metric_current>> >>)
            ELSE r,
            22, g.consumption_ipu)
    ELSE r

\* the three independent consumption chapters 23..25, 26..28, 30..33
GvsConsumptionChapters(r, g, quantity, amount) ==
    LET r5 == IF Truthy(g.consumption_ipu)
              THEN set_fields(r, << <<23, quantity>>, <<24, Num(amount)>>,
                                    <<25, Num(amount)>> >>)
              ELSE r
        r6 == IF Truthy(g.consumption_average)
              THEN set_fields(r5, << <<26, quantity>>, <<27, Num(amount)>>,
                                     <<28, Num(amount)>> >>)
              ELSE r5
    IN  IF Truthy(g.consumption_normative)
        THEN set_fields(r6, << <<30, g.people_registered>>, <<31, quantity>>,
                               <<32, Num(amount)>>, <<33, Num(amount)>> >>)
        ELSE r6

\* try: payment_sum = <lookup>  except NoServiceRow: payment_sum = 0
gvs_payment_sum(lookup) == IF lookup.ok THEN lookup.v ELSE 0

\* gvs_closing_balance with another default than 0
gvs_closing_balance_other_default(lookup) ==
    IF lookup.ok THEN lookup.v ELSE -1

\* try: closing_balance = <lookup>  except NoServiceRow: closing_balance = 0
gvs_closing_balance(lookup) == IF lookup.ok THEN lookup.v ELSE 0

\* c holds the arguments (c.gvs as passed in) and the ledger's answers
GvsSingleResultRow_init(c, memo) ==
    LET quantity == Str(Format4f(c.accural.gvs, c.price))
        r0 == set_fields(BaseResultRow_init(c.date, c.data, c.price),
                 << <<4, Str("GVS_ACCURAL")>>,
                    <<5, Str("Teplovaya energiya GVS")>> >>)
        r1 == GvsMeterChapter(r0, c.gvs, memo, c.data.account)
        r2 == GvsReadingChapter(r1, c.gvs)
        r3 == GvsConsumptionChapters(r2, c.gvs, quantity, c.accural.gvs)
        r4 == ConsolidatedChapter(r3, quantity, c.accural.gvs)
        r5 == PaymentChapter(r4, c.date, gvs_payment_sum(c.payment))
    IN  set_field(r5, 45, Num(gvs_closing_balance(c.closing)))

GvsMultipleResultFirstRow_init(c, memo) ==
    LET r == GvsSingleResultRow_init(c, memo)
    IN  IF c.gvs.metric_current # None
        THEN set_field(r, 20, Str("Pri snyatii pribora"))
        ELSE r

\* for i in range(23, 46): self.set_field(i, None)
clear_chapters(r) ==
    [ind \in DOMAIN r |-> IF ind \in 23 .. 45 THEN None ELSE r[ind]]

GvsMultipleResultSecondRow_init(c, memo) ==
    LET r  == GvsSingleResultRow_init(c, memo)
        r1 == set_field(r, 10, c.gvs.metric_date_current)
        r2 == IF c.gvs.metric_current # None
              THEN set_field(r1, 20, Str("Pri ustanovke"))
              ELSE r1
    IN  clear_chapters(r2)

\* GvsIpuInstallDates[gvs.account] = gvs.metric_date_current
remember_install_date(memo, g) ==
    [a \in DOMAIN memo \cup {g.account} |->
        IF a = g.account THEN g.metric_date_current ELSE memo[a]]

----------------------------------------------------------------------------
(* GvsReaccuralResultRow *)

ReaccuralTypes == {"IPU", "AVERAGE", "NORMATIVE"}

\* ReaccuralChapter with the NORMATIVE case writing the AVERAGE columns
ReaccuralChapter_pasted_columns(r, reaccural_type, quantity, reaccural_sum) ==
    IF reaccural_type = "IPU"
    THEN set_fields(r, << <<23, quantity>>, <<24, Num(reaccural_sum)>>,
                          <<25, Num(reaccural_sum)>> >>)
    ELSE set_fields(r, << <<26, quantity>>, <<27, Num(reaccural_sum)>>,
                          <<28, Num(reaccural_sum)>> >>)

\* match reaccural_type, for a member of ReaccuralTypes
ReaccuralChapter(r, reaccural_type, quantity, reaccural_sum) ==
    CASE reaccural_type = "IPU" ->
            set_fields(r, << <<23, quantity>>, <<24, Num(reaccural_sum)>>,
                             <<25, Num(reaccural_sum)>> >>)
      [] reaccural_type = "AVERAGE" ->
            set_fields(r, << <<26, quantity>>, <<27, Num(reaccural_sum)>>,
                             <<28, Num(reaccural_sum)>> >>)
      [] reaccural_type = "NORMATIVE" ->
            set_fields(r, << <<31, quantity>>, <<32, Num(reaccural_sum)>>,
                             <<33, Num(reaccural_sum)>> >>)

\* the constructor when reaccural_type is matched by a case
GvsReaccuralResultRow_init(c, memo) ==
    LET quantity == Str(Format4f(c.reaccural_sum, c.price))
        r0 == set_fields(BaseResultRow_init(c.date, c.data, c.price),
                 << <<4, Str("GVS_REACCURAL")>>,
                    <<5, Str("Teplovaya energiya GVS")>>,
                    <<6, Num(c.reaccural_date.month)>>,
                    <<7, Num(c.reaccural_date.year)>>,
                    <<8, Num(c.price)>> >>)
        r1 == GvsMeterChapter(r0, c.gvs, memo, c.data.account)
        r2 == ReaccuralChapter(r1, c.reaccural_type, quantity,
                               c.reaccural_sum)
    IN  ConsolidatedChapter(r2, quantity, c.reaccural_sum)

----------------------------------------------------------------------------
(* Inputs: what a caller and the collaborators (tariff table, rosters,     *)
(* account ledger) can hand to a constructor.                              *)

\* a ledger lookup returned v, or raised NoServiceRow
Returned(v) == [ok |-> TRUE, v |-> v]
NoServiceRow == [ok |-> FALSE, v |-> 0]

MonthYear(month, year) == [month |-> month, year |-> year]

OsvAddressRecord(account) ==
    [account |-> account, address |-> "addr-" \o account,
     population |-> Num(3)]

\* before any GvsDetailsRecord was handed to a builder
NoFact ==
    [account |-> "", counter_id |-> None, counter_number |-> None,
     metric_current |-> None, metric_date_current |-> None,
     consumption_ipu |-> None, consumption_average |-> None,
     consumption_normative |-> None, people_registered |-> None]

NoCall ==
    [kind |-> "none", date |-> MonthYear(1, 2000),
     data |-> OsvAddressRecord(""), accural |-> [heating |-> 0, gvs |-> 0],
     price |-> 1, has_odpu |-> FALSE, has_heating_average |-> FALSE,
     payment |-> Returned(0), closing |-> Returned(0), gvs |-> NoFact,
     reused |-> FALSE, reaccural_date |-> MonthYear(1, 2000),
     reaccural_sum |-> 0, reaccural_type |-> ""]

\* GvsDetailsRecords over the given field values
GvsDetailsRecords(accounts, ids, numbers, metrics, dates, ipus, averages, normatives, people) ==
    [account : accounts, counter_id : ids, counter_number : numbers,
     metric_current : metrics, metric_date_current : dates,
     consumption_ipu : ipus, consumption_average : averages,
     consumption_normative : normatives, people_registered : people]

\* Inputs that exercise the install-date dictionary: two accounts, records
\* of either account (so a record's account may differ from the row's),
\* with and without a counter, with and without a reading date.
MemoInputs ==
    [dates |-> {MonthYear(5, 2023)},
     datas |-> {OsvAddressRecord("100"), OsvAddressRecord("200")},
     accurals |-> {[heating |-> 150, gvs |-> 100]},
     prices |-> {3},
     has_odpu |-> {TRUE},
     has_heating_average |-> {FALSE},
     payments |-> {Returned(200)},
     closings |-> {Returned(35)},
     facts |-> GvsDetailsRecords({"100", "200"}, {None, Str("A1")}, {None},
                  {Num(5)}, {None, Str("10.05.2023")}, {Num(3)}, {None},
                  {None}, {Num(2)}),
     reaccural_dates |-> {MonthYear(3, 2023)},
     reaccural_sums |-> {-100},
     reaccural_types |-> {"IPU"}]

\* Inputs that exercise the chapters of a row: one account, every roster
\* combination, every ledger answer (a payment, a refund, zero, no service
\* row), records with each consumption basis and each counter
\* configuration, every reaccrual type and one that is none of them.
ChapterInputs ==
    [dates |-> {MonthYear(11, 2022)},
     datas |-> {OsvAddressRecord("100")},
     accurals |-> {[heating |-> 150, gvs |-> 100]},
     prices |-> {3},
     has_odpu |-> BOOLEAN,
     has_heating_average |-> BOOLEAN,
     payments |-> {Returned(200), Returned(-70), Returned(0), NoServiceRow},
     closings |-> {Returned(35), NoServiceRow},
     facts |->
        GvsDetailsRecords({"100"}, {None, Str("A1")}, {None}, {Num(5)},
            {Str("10.11.2022")}, {None, Num(3)}, {None}, {None}, {Num(2)})
        \cup GvsDetailsRecords({"100"}, {None, Str("A1")}, {None}, {Num(5)},
            {Str("10.11.2022")}, {None}, {Num(4)}, {None}, {Num(2)})
        \cup GvsDetailsRecords({"100"}, {None, Str("A1")}, {None}, {Num(5)},
            {Str("10.11.2022")}, {None}, {None}, {Num(1)}, {Num(2)})
        \cup GvsDetailsRecords({"100"}, {None, Str("A1")}, {None}, {Num(5)},
            {Str("10.11.2022")}, {Num(3)}, {Num(4)}, {Num(1)}, {Num(2)})
        \cup GvsDetailsRecords({"100"}, {None, Str("A1")}, {Str("N7")},
            {Num(5)}, {Str("10.11.2022")}, {Num(3)}, {None}, {None},
            {Num(2)})
        \cup GvsDetailsRecords({"100"}, {Str("A1")}, {None}, {None, Num(0)},
            {Str("10.11.2022")}, {Num(0)}, {None}, {Num(1)}, {None}),
     reaccural_dates |-> {MonthYear(9, 2022)},
     reaccural_sums |-> {-100},
     reaccural_types |-> {"IPU", "AVERAGE", "NORMATIVE", "OTHER"}]

\* Inputs for the sink: a few calls of each builder, with and without an
\* area meter, a failing reaccrual.
SinkInputs ==
    [dates |-> {MonthYear(5, 2023)},
     datas |-> {OsvAddressRecord("100")},
     accurals |-> {[heating |-> 150, gvs |-> 100]},
     prices |-> {50},
     has_odpu |-> BOOLEAN,
     has_heating_average |-> {TRUE},
     payments |-> {Returned(200)},
     closings |-> {Returned(35)},
     facts |->
        GvsDetailsRecords({"100"}, {Str("X9")}, {None}, {Num(5)},
            {Str("10.05.2023")}, {Num(3)}, {None}, {None}, {Num(2)}),
     reaccural_dates |-> {MonthYear(3, 2023)},
     reaccural_sums |-> {150},
     reaccural_types |-> {"NORMATIVE", "OTHER"}]

----------------------------------------------------------------------------
(* Constructor calls *)

\* the GvsDetailsRecord argument: a fresh record, or the object the
\* previous builder was given
FactsOffered(U) == U.facts \cup (IF gvs # NoFact THEN {gvs} ELSE {})

GvsCall(kind, date, data, accural, price, payment, closing, g) ==
    [NoCall EXCEPT !.kind = kind, !.date = date, !.data = data,
                   !.accural = accural, !.price = price,
                   !.payment = payment, !.closing = closing, !.gvs = g,
                   !.reused = (g = gvs)]

HeatingResultRow(U) ==
    \E date \in U.dates, data \in U.datas, accural \in U.accurals,
       price \in U.prices, has_odpu \in U.has_odpu,
       has_heating_average \in U.has_heating_average,
       payment \in U.payments, closing \in U.closings :
        LET c == [NoCall EXCEPT !.kind = "heating", !.date = date,
                      !.data = data, !.accural = accural, !.price = price,
                      !.has_odpu = has_odpu,
                      !.has_heating_average = has_heating_average,
                      !.payment = payment, !.closing = closing]
        IN  /\ call' = c
            /\ IF payment.ok /\ closing.ok
               THEN row' = HeatingResultRow_init(c) /\ err' = ""
               ELSE row' = NoRow /\ err' = "NoServiceRow"
            /\ UNCHANGED <<GvsIpuInstallDates, gvs, sheet, secondRows,
                           accountsAgree>>

GvsSingleResultRow(U) ==
    \E date \in U.dates, data \in U.datas, accural \in U.accurals,
       price \in U.prices, payment \in U.payments, closing \in U.closings,
       g \in FactsOffered(U) :
        LET c == GvsCall("single", date, data, accural, price, payment,
                         closing, g)
        IN  /\ call' = c
            /\ row' = GvsSingleResultRow_init(c, GvsIpuInstallDates)
            /\ err' = ""
            /\ gvs' = gvs_after(g)
            /\ accountsAgree' = (accountsAgree /\ g.account = data.account)
            /\ UNCHANGED <<GvsIpuInstallDates, sheet, secondRows>>

GvsMultipleResultFirstRow(U) ==
    \E date \in U.dates, data \in U.datas, accural \in U.accurals,
       price \in U.prices, payment \in U.payments, closing \in U.closings,
       g \in FactsOffered(U) :
        LET c == GvsCall("first", date, data, accural, price, payment,
                         closing, g)
        IN  /\ call' = c
            /\ row' = GvsMultipleResultFirstRow_init(c, GvsIpuInstallDates)
            /\ err' = ""
            /\ gvs' = gvs_after(g)
            /\ accountsAgree' = (accountsAgree /\ g.account = data.account)
            /\ UNCHANGED <<GvsIpuInstallDates, sheet, secondRows>>

GvsMultipleResultSecondRow(U) ==
    \E date \in U.dates, data \in U.datas, accural \in U.accurals,
       price \in U.prices, payment \in U.payments, closing \in U.closings,
       g \in FactsOffered(U) :
        LET c == GvsCall("second", date, data, accural, price, payment,
                         closing, g)
        IN  /\ call' = c
            /\ row' = GvsMultipleResultSecondRow_init(c, GvsIpuInstallDates)
            /\ err' = ""
            /\ gvs' = gvs_after(g)
            /\ GvsIpuInstallDates' =
                  remember_install_date(GvsIpuInstallDates, gvs_after(g))
            /\ secondRows' =
                  [a \in DOMAIN secondRows \cup {data.account} |->
                      IF a = data.account THEN g.metric_date_current
                      ELSE secondRows[a]]
            /\ accountsAgree' = (accountsAgree /\ g.account = data.account)
            /\ UNCHANGED sheet

GvsReaccuralResultRow(U) ==
    \E date \in U.dates, data \in U.datas, price \in U.prices,
       g \in FactsOffered(U), reaccural_date \in U.reaccural_dates,
       reaccural_sum \in U.reaccural_sums,
       reaccural_type \in U.reaccural_types :
        LET c == [NoCall EXCEPT !.kind = "reaccural", !.date = date,
                      !.data = data, !.price = price, !.gvs = g,
                      !.reused = (g = gvs),
                      !.reaccural_date = reaccural_date,
                      !.reaccural_sum = reaccural_sum,
                      !.reaccural_type = reaccural_type]
        IN  /\ call' = c
            /\ gvs' = gvs_after(g)
            /\ IF reaccural_type \in ReaccuralTypes
               THEN /\ row' = GvsReaccuralResultRow_init(c, GvsIpuInstallDates)
                    /\ err' = ""
               ELSE row' = NoRow /\ err' = "ValueError"
            /\ accountsAgree' = (accountsAgree /\ g.account = data.account)
            /\ UNCHANGED <<GvsIpuInstallDates, sheet, secondRows>>

----------------------------------------------------------------------------
(* ResultFile *)

MaxSheet == 2

add_row ==
    /\ row # NoRow
    /\ Len(sheet) < MaxSheet
    /\ sheet' = Append(sheet, as_list(row))
    /\ UNCHANGED <<GvsIpuInstallDates, gvs, row, err, call, secondRows,
                   accountsAgree>>

----------------------------------------------------------------------------
(* Specifications *)

Init ==
    /\ GvsIpuInstallDates = [a \in {} |-> None]
    /\ gvs = NoFact
    /\ row = NoRow
    /\ err = ""
    /\ call = NoCall
    /\ sheet = <<>>
    /\ secondRows = [a \in {} |-> None]
    /\ accountsAgree = TRUE

Next ==
    \/ HeatingResultRow(MemoInputs)
    \/ GvsSingleResultRow(MemoInputs)
    \/ GvsMultipleResultFirstRow(MemoInputs)
    \/ GvsMultipleResultSecondRow(MemoInputs)
    \/ GvsReaccuralResultRow(MemoInputs)

Spec == Init /\ [][Next]_vars

ChapterNext ==
    \/ HeatingResultRow(ChapterInputs)
    \/ GvsSingleResultRow(ChapterInputs)
    \/ GvsMultipleResultFirstRow(ChapterInputs)
    \/ GvsMultipleResultSecondRow(ChapterInputs)
    \/ GvsReaccuralResultRow(ChapterInputs)

ChapterSpec == Init /\ [][ChapterNext]_vars

SinkNext ==
    \/ HeatingResultRow(SinkInputs)
    \/ GvsSingleResultRow(SinkInputs)
    \/ GvsMultipleResultFirstRow(SinkInputs)
    \/ GvsMultipleResultSecondRow(SinkInputs)
    \/ GvsReaccuralResultRow(SinkInputs)
    \/ add_row

SinkSpec == Init /\ [][SinkNext]_vars

----------------------------------------------------------------------------
(* Properties *)

Built == row # NoRow

Empty(r, inds) == \A i \in inds : r[i] = None

Populated(r, inds) == \A i \in inds : r[i] # None

GvsAccuralKinds == {"single", "first", "second"}

\* the three fields of a chapter hold (quantity, amount, amount)
Holds(r, first, quantity, amount) ==
    /\ r[first] = Str(quantity)
    /\ r[first + 1] = Num(amount)
    /\ r[first + 2] = Num(amount)

\* the amount a row's quantity is computed from
AmountOf(c) ==
    CASE c.kind = "heating" -> c.accural.heating
      [] c.kind = "reaccural" -> c.reaccural_sum
      [] OTHER -> c.accural.gvs

\* C1: when every metering fact's account is the account of the row it is
\* used in, a GVS single or reaccrual row built from a fact with a counter
\* id or number has in field 10 the reading date of the most recent
\* split-second row built for that account, "01.01.2019" if there was none;
\* the dictionary holds exactly what the split-second rows wrote, so no
\* other builder changes it.
C1_InstallDateFromLastSecondRow ==
    accountsAgree =>
        /\ GvsIpuInstallDates = secondRows
        /\ (call.kind \in {"single", "reaccural"} /\ Built
                /\ has_counter(call.gvs))
            => row[10] = IF call.data.account \in DOMAIN secondRows
                         THEN secondRows[call.data.account]
                         ELSE Str("01.01.2019")

C1_Witness ==
    /\ accountsAgree
    /\ call.kind = "single"
    /\ has_counter(call.gvs)
    /\ call.data.account \in DOMAIN secondRows
    /\ row[10] = Str("10.05.2023")

\* C2: after a split-second row is built, fields 23..45 are empty, field 10
\* is the fact's reading date and the dictionary entry for the row's account
\* (field 2) is the fact's reading date.
C2_SecondRowMemoForRowAccount ==
    (call.kind = "second" /\ Built) =>
        /\ Empty(row, 23 .. 45)
        /\ row[10] = call.gvs.metric_date_current
        /\ row[2].s \in DOMAIN GvsIpuInstallDates
        /\ GvsIpuInstallDates[row[2].s] = call.gvs.metric_date_current

\* C3 as stated: in every built row of every kind field 35 is the quantity
\* and fields 36 and 37 the amount it was computed from.
C3_ConsolidatedInEveryRow ==
    Built => Holds(row, 35, Format4f(AmountOf(call), call.price),
                   AmountOf(call))

\* C3 as amended: that holds in every built heating, GVS single, GVS
\* split-first and GVS reaccrual row; in a split-second row fields 35..37
\* are empty.
C3_ConsolidatedExceptSecondRow ==
    Built =>
        IF call.kind = "second"
        THEN Empty(row, 35 .. 37)
        ELSE Holds(row, 35, Format4f(AmountOf(call), call.price),
                   AmountOf(call))

C3_Witness ==
    /\ call.kind = "reaccural"
    /\ Built
    /\ row[35] = Str("-33.3333")
    /\ row[36] = Num(-100)

\* C4: in a heating, GVS single or split-first row with a nonzero payment
\* sum the payment chapter is populated and field 43 is "Oplata" for a
\* positive sum and "Vozvrat oplaty" for a negative one.
C4_PaymentLabelBySign ==
    (call.kind \in {"heating", "single", "first"} /\ Built
        /\ gvs_payment_sum(call.payment) # 0)
    => /\ Populated(row, 40 .. 43)
       /\ row[43] = IF gvs_payment_sum(call.payment) > 0
                    THEN Str("Oplata") ELSE Str("Vozvrat oplaty")

\* C5: in a reaccrual row field 30 is the fact's registered count when the
\* type is NORMATIVE and empty when it is IPU or AVERAGE.
C5_ReaccuralRegisteredCount ==
    (call.kind = "reaccural" /\ Built) =>
        row[30] = IF call.reaccural_type = "NORMATIVE"
                  THEN call.gvs.people_registered ELSE None

\* C6: a reaccrual row of a recognized type has exactly one of the chapters
\* 23..25, 26..28, 31..33 holding (quantity, sum, sum), the one of its
\* type, and the other two empty; with any other type the constructor
\* raises, there is no row and add_row cannot take one.
C6_ReaccuralOneChapterOrError ==
    call.kind = "reaccural" =>
        LET q == Format4f(call.reaccural_sum, call.price)
            t == call.reaccural_type
        IN  IF t \in ReaccuralTypes
            THEN /\ Built /\ err = ""
                 /\ IF t = "IPU" THEN Holds(row, 23, q, call.reaccural_sum)
                    ELSE Empty(row, 23 .. 25)
                 /\ IF t = "AVERAGE"
                    THEN Holds(row, 26, q, call.reaccural_sum)
                    ELSE Empty(row, 26 .. 28)
                 /\ IF t = "NORMATIVE"
                    THEN Holds(row, 31, q, call.reaccural_sum)
                    ELSE Empty(row, 31 .. 33)
            ELSE /\ ~Built /\ err = "ValueError"
                 /\ ~ENABLED add_row

C6_Witness ==
    /\ call.kind = "reaccural"
    /\ call.reaccural_type = "NORMATIVE"
    /\ Built
    /\ row[31] = Str("-33.3333")
    /\ Empty(row, 23 .. 28)

\* C7: in a heating row fields 26..28 are populated iff the address is in
\* both rosters, fields 30..33 are populated iff it is not, and the chapter
\* that is not populated is empty.
C7_HeatingAverageXorNormative ==
    (call.kind = "heating" /\ Built) =>
        IF call.has_odpu /\ call.has_heating_average
        THEN Populated(row, 26 .. 28) /\ Empty(row, 30 .. 33)
        ELSE Populated(row, 30 .. 33) /\ Empty(row, 26 .. 28)

C7_Witness ==
    /\ call.kind = "heating"
    /\ Built
    /\ call.has_odpu /\ ~call.has_heating_average
    /\ row[9] = Str("Obschedomovyi")
    /\ row[31] = Str("50.0000")

\* C8: when a ledger lookup raises NoServiceRow while a GVS accrual row is
\* built, a row is built all the same; after a failed payment lookup fields
\* 40..43 are empty; after a failed closing-balance lookup field 45 of a
\* single or split-first row is 0.
C8_NoServiceRowTolerated ==
    (call.kind \in GvsAccuralKinds
        /\ (~call.payment.ok \/ ~call.closing.ok))
    => /\ Built /\ err = ""
       /\ ~call.payment.ok => Empty(row, 40 .. 43)
       /\ (~call.closing.ok /\ call.kind \in {"single", "first"})
            => row[45] = Num(0)

C8_Witness ==
    /\ call.kind = "first"
    /\ ~call.payment.ok /\ ~call.closing.ok
    /\ Built
    /\ row[45] = Num(0)
    /\ row[43] = None

\* C9: a GVS builder given a fact with a counter id X and no counter number
\* sets the fact's number to X_2 and puts it in field 14; a fact that has a
\* number (also one synthesized by an earlier builder) is left as it is and
\* its number goes to field 14; nothing else of the fact changes.
C9_CounterNumberSynthesis ==
    (call.kind \in GvsAccuralKinds \cup {"reaccural"}) =>
        /\ [gvs EXCEPT !.counter_number = call.gvs.counter_number] = call.gvs
        /\ (Truthy(call.gvs.counter_id) /\ ~Truthy(call.gvs.counter_number))
            => /\ gvs.counter_number = Str(call.gvs.counter_id.s \o "_2")
               /\ Built => row[14] = Str(call.gvs.counter_id.s \o "_2")
        /\ Truthy(call.gvs.counter_number)
            => /\ gvs = call.gvs
               /\ Built => row[14] = call.gvs.counter_number

C9_Witness ==
    /\ call.kind \in GvsAccuralKinds \cup {"reaccural"}
    /\ call.reused
    /\ call.gvs.counter_number = Str("A1_2")
    /\ Built
    /\ row[14] = Str("A1_2")

UnlistedFields == {17, 18, 29, 34, 38, 39, 44, 46}

\* C10: a row serializes to 47 values, value i being field i, and the
\* fields 17, 18, 29, 34, 38, 39, 44, 46 are empty in every row built and
\* in every list appended to the sheet.
C10_FortySevenFields ==
    /\ Built =>
        /\ DOMAIN row = 0 .. 46
        /\ Len(as_list(row)) = 47
        /\ \A i \in 0 .. 46 : as_list(row)[i + 1] = row[i]
        /\ Empty(row, UnlistedFields)
    /\ \A k \in 1 .. Len(sheet) :
        /\ Len(sheet[k]) = 47
        /\ \A i \in UnlistedFields : sheet[k][i + 1] = None

C10_Witness ==
    /\ Len(sheet) >= 2
    /\ sheet[1][5] = Str("HEATING_ACCURAL")
    /\ sheet[2][5] = Str("GVS_REACCURAL")
    /\ sheet[2][32] = Str("3.0000")

====
